---- MODULE Spec2Model ----
(***************************************************************************)
(* Model of ControlInteractivity (cascadia/TerminalControl): the pointer    *)
(* handlers PointerPressed, PointerMoved and PointerReleased, the click     *)
(* counter _NumberOfClicks, the VT mouse forwarder and the copy / paste     *)
(* entry points.  The terminal core (ControlCore) is a collaborator: what   *)
(* it answers to a query is part of the event that is handled, and every    *)
(* call made on it is logged in `calls`.                                    *)
(***************************************************************************)
EXTENDS Integers, Sequences, FiniteSets, TLC

VARIABLES
    touchAnchor,                      \* std::optional<Point> _touchAnchor
    multiClickTimer,                  \* Timestamp _multiClickTimer (microseconds)
    multiClickCounter,                \* unsigned int _multiClickCounter
    lastMouseClickTimestamp,          \* Timestamp _lastMouseClickTimestamp
    lastMouseClickPos,                \* std::optional<Point> _lastMouseClickPos
    singleClickTouchdownPos,          \* std::optional<Point>
    singleClickTouchdownTerminalPos,  \* std::optional<til::point>
    lastMouseClickPosNoSelection,     \* std::optional<Point>
    selectionNeedsToBeCopied,         \* bool _selectionNeedsToBeCopied
    ev,          \* the event handled last: [handler, s] (s is the pointer sample)
    calls,       \* the calls and signals the last event made, in order
    clickRet,    \* what _NumberOfClicks returned in the last event (0: not called)
    raised,      \* TRUE iff the last event left its handler by an exception
    lastRet,     \* history: what the most recent returning _NumberOfClicks returned
    firstClickPos \* history: where the most recent LeftClickOnTerminal with click
                  \* count 1 and no selection was (empty: there was none)

vars == <<touchAnchor, multiClickTimer, multiClickCounter, lastMouseClickTimestamp,
          lastMouseClickPos, singleClickTouchdownPos, singleClickTouchdownTerminalPos,
          lastMouseClickPosNoSelection, selectionNeedsToBeCopied,
          ev, calls, clickRet, raised, lastRet, firstClickPos>>

interactionVars == <<touchAnchor, multiClickCounter, lastMouseClickTimestamp,
                     lastMouseClickPos, singleClickTouchdownPos,
                     singleClickTouchdownTerminalPos, lastMouseClickPosNoSelection,
                     selectionNeedsToBeCopied>>

(***************************************************************************)
(* Bounds of the model.                                                    *)
(***************************************************************************)
MaxTime == 2          \* timestamps are 0 .. MaxTime milliseconds
MaxClicks == 4        \* _multiClickCounter is not incremented beyond this
MaxCoord == 4         \* screen coordinates are 0 .. MaxCoord

(***************************************************************************)
(* std::optional                                                           *)
(***************************************************************************)
None == <<>>
Some(v) == <<v>>
HasValue(o) == o # <<>>
Value(o) == o[1]

(***************************************************************************)
(* Values of the platform and of the Win32 headers.                        *)
(***************************************************************************)
GetDoubleClickTime == 1     \* milliseconds, as WinUser's GetDoubleClickTime()
MAX_CLICK_COUNT == 3
WM_MOUSEMOVE == 512
WM_LBUTTONDOWN == 513
WM_LBUTTONUP == 514
WM_RBUTTONDOWN == 516
WM_RBUTTONUP == 517
WM_MBUTTONDOWN == 519
WM_MBUTTONUP == 520
WM_MOUSEWHEEL == 522
SHORT_MAX == 32767

(***************************************************************************)
(* The interaction state as one value, and the outcome of one handler run: *)
(* the state it leaves, the calls it made, what _NumberOfClicks returned    *)
(* and whether it left by an exception.                                     *)
(***************************************************************************)
Cur ==
    [touchAnchor |-> touchAnchor,
     multiClickCounter |-> multiClickCounter,
     lastMouseClickTimestamp |-> lastMouseClickTimestamp,
     lastMouseClickPos |-> lastMouseClickPos,
     singleClickTouchdownPos |-> singleClickTouchdownPos,
     singleClickTouchdownTerminalPos |-> singleClickTouchdownTerminalPos,
     lastMouseClickPosNoSelection |-> lastMouseClickPosNoSelection,
     selectionNeedsToBeCopied |-> selectionNeedsToBeCopied,
     calls |-> <<>>,
     clickRet |-> 0,
     raised |-> FALSE]

Call(fn, args) == [fn |-> fn, args |-> args]
Did(st, fn, args) == [st EXCEPT !.calls = Append(@, Call(fn, args))]

(***************************************************************************)
(* _NumberOfClicks (lines 59-77).  UInt64Sub fails when the subtraction     *)
(* would go below zero, and THROW_IF_FAILED then leaves the function before *)
(* anything is written.                                                     *)
(***************************************************************************)
UInt64SubOk(a, b) == a >= b

ClickIsNewSequence(st, clickPos, delta) ==
    Some(clickPos) # st.lastMouseClickPos \/ delta > multiClickTimer

\* mutant: the multi-click window is not looked at
NextClickCounter_NoWindow(st, clickPos, delta) ==
    IF Some(clickPos) # st.lastMouseClickPos THEN 1 ELSE st.multiClickCounter + 1

NextClickCounter(st, clickPos, delta) ==
    IF ClickIsNewSequence(st, clickPos, delta) THEN 1 ELSE st.multiClickCounter + 1

NumberOfClicks(st, clickPos, clickTime) ==
    IF ~UInt64SubOk(clickTime, st.lastMouseClickTimestamp)
    THEN [st EXCEPT !.raised = TRUE]
    ELSE LET delta == clickTime - st.lastMouseClickTimestamp
             n == NextClickCounter(st, clickPos, delta)
         IN  [st EXCEPT !.multiClickCounter = n,
                        !.lastMouseClickTimestamp = clickTime,
                        !.lastMouseClickPos = Some(clickPos),
                        !.clickRet = n]

(***************************************************************************)
(* The click-count cycle of PointerPressed (line 192).                     *)
(***************************************************************************)
\* mutant: the cycle is shifted by one
MultiClickMapper_Shifted(clickCount) ==
    IF clickCount > MAX_CLICK_COUNT
    THEN ((clickCount + MAX_CLICK_COUNT) % MAX_CLICK_COUNT) + 1
    ELSE clickCount

MultiClickMapper(clickCount) ==
    IF clickCount > MAX_CLICK_COUNT
    THEN ((clickCount + MAX_CLICK_COUNT - 1) % MAX_CLICK_COUNT) + 1
    ELSE clickCount

(***************************************************************************)
(* _CanSendVTMouseInput (lines 439-449).                                   *)
(***************************************************************************)
\* mutant: Shift does not suppress forwarding
CanSendVTMouseInput_NoShift(s) == s.vtMouseMode

\* mutant: Ctrl suppresses forwarding as Shift does
CanSendVTMouseInput_CtrlToo(s) ==
    IF s.shift \/ s.ctrl THEN FALSE ELSE s.vtMouseMode

CanSendVTMouseInput(s) ==
    IF s.shift THEN FALSE ELSE s.vtMouseMode

(***************************************************************************)
(* _TrySendMouseEvent (lines 381-429).                                     *)
(***************************************************************************)
UiButtonOfKind(kind) ==
    CASE kind = "LeftButtonPressed" -> WM_LBUTTONDOWN
      [] kind = "LeftButtonReleased" -> WM_LBUTTONUP
      [] kind = "MiddleButtonPressed" -> WM_MBUTTONDOWN
      [] kind = "MiddleButtonReleased" -> WM_MBUTTONUP
      [] kind = "RightButtonPressed" -> WM_RBUTTONDOWN
      [] kind = "RightButtonReleased" -> WM_RBUTTONUP
      [] OTHER -> WM_MOUSEMOVE

SaturatedShort(x) ==
    IF x > SHORT_MAX THEN SHORT_MAX
    ELSE IF x < -SHORT_MAX - 1 THEN -SHORT_MAX - 1 ELSE x

\* mutant: a horizontal wheel is encoded as a wheel event too
UiButton_AnyWheel(s) ==
    IF SaturatedShort(s.wheel) # 0
    THEN WM_MOUSEWHEEL
    ELSE UiButtonOfKind(s.kind)

UiButton(s) ==
    IF SaturatedShort(s.wheel) # 0 /\ ~s.horizontalWheel
    THEN WM_MOUSEWHEEL
    ELSE UiButtonOfKind(s.kind)

Modifiers(s) == <<s.shift, s.ctrl, s.alt>>

TrySendMouseEvent(st, s) ==
    Did(st, "SendMouseEvent",
        <<s.cell, UiButton(s), Modifiers(s), SaturatedShort(s.wheel),
          <<s.left, s.middle, s.right>>>>)

(***************************************************************************)
(* CopySelectionToClipboard (lines 105-123), PasteTextFromClipboard        *)
(* (lines 127-136), _HyperlinkHandler (lines 431-437) and                  *)
(* _SetEndSelectionPoint (lines 455-459).  _core is set by the constructor  *)
(* and never reset.                                                         *)
(***************************************************************************)
\* mutant: a copy leaves _selectionNeedsToBeCopied
CopySelectionToClipboard_KeepsFlag(st, singleLine) ==
    Did(st, "CopySelectionToClipboard", <<singleLine>>)

CopySelectionToClipboard(st, singleLine) ==
    Did([st EXCEPT !.selectionNeedsToBeCopied = FALSE],
        "CopySelectionToClipboard", <<singleLine>>)

PasteTextFromClipboard(st) == Did(st, "PasteFromClipboard", <<>>)

HyperlinkHandler(st, uri) == Did(st, "OpenHyperlink", <<uri>>)

\* mutant: extending the selection end owes no copy
SetEndSelectionPoint_NoCopyOwed(st, terminalPosition) ==
    Did(st, "SetEndSelectionPoint", <<terminalPosition>>)

SetEndSelectionPoint(st, terminalPosition) ==
    [Did(st, "SetEndSelectionPoint", <<terminalPosition>>)
        EXCEPT !.selectionNeedsToBeCopied = TRUE]

(***************************************************************************)
(* til::size::scale(til::math::rounding, 1.0f / RendererScale()): the font  *)
(* size in pixels to device-independent units, each side rounded to the     *)
(* nearest integer.  The render scale is held in percent.                   *)
(***************************************************************************)
ScaleRounded(v, scalePercent) == (2 * 100 * v + scalePercent) \div (2 * scalePercent)

FontSizeInDips(s) ==
    <<ScaleRounded(s.font[1], s.scale), ScaleRounded(s.font[2], s.scale)>>

Min(a, b) == IF a < b THEN a ELSE b
Abs(a) == IF a < 0 THEN -a ELSE a

DistanceSquared(p, q) == (p[1] - q[1]) * (p[1] - q[1]) + (p[2] - q[2]) * (p[2] - q[2])

\* mutant: the drag starts only beyond a quarter of a cell
MovedQuarterCell_Beyond(s, touchdownPoint) ==
    LET size == FontSizeInDips(s)
        m == Min(size[1], size[2])
    IN  16 * DistanceSquared(s.pos, touchdownPoint) > m * m

\* distance >= min(width, height) / 4.f, with both sides squared (lines 254-259)
MovedQuarterCell(s, touchdownPoint) ==
    LET size == FontSizeInDips(s)
        m == Min(size[1], size[2])
    IN  16 * DistanceSquared(s.pos, touchdownPoint) >= m * m

\* mutant: a move of exactly half a row scrolls
MovedHalfRow_AtLeast(s, dy) == 2 * Abs(dy) >= FontSizeInDips(s)[2]

\* std::abs(dy) > height / 2.0f (line 314)
MovedHalfRow(s, dy) == 2 * Abs(dy) > FontSizeInDips(s)[2]

\* mutant: every device that is not a touch device is taken for a mouse
IsMouseOrPen_NotTouch(s) == s.type # "Touch"

IsMouseOrPen(s) == s.type = "Mouse" \/ s.type = "Pen"

(***************************************************************************)
(* PointerPressed (lines 147-230).                                         *)
(***************************************************************************)
\* mutant: every click of a burst activates the link
PressedHyperlink_EveryClick(st, s) ==
    LET c == NumberOfClicks(st, s.pos, s.time)
    IN  IF c.raised THEN c ELSE HyperlinkHandler(c, s.hyperlink)

\* mutant: a click over a link is counted apart from the selection clicks
PressedHyperlink_OwnAccumulator(st, s) ==
    LET c == NumberOfClicks(st, s.pos, s.time)
    IN  IF c.raised THEN c
        ELSE IF c.clickRet = 1
        THEN HyperlinkHandler([st EXCEPT !.clickRet = 1], s.hyperlink)
        ELSE [st EXCEPT !.clickRet = c.clickRet]

PressedHyperlink(st, s) ==
    LET c == NumberOfClicks(st, s.pos, s.time)
    IN  IF c.raised THEN c
        ELSE IF c.clickRet = 1 THEN HyperlinkHandler(c, s.hyperlink) ELSE c

\* mutant: the touchdown is captured while a selection exists too
CaptureTouchdown_WithSelection(st, s, multiClickMapper) ==
    IF multiClickMapper = 1
    THEN [st EXCEPT !.singleClickTouchdownPos = Some(s.pos),
                    !.singleClickTouchdownTerminalPos = Some(s.cell),
                    !.lastMouseClickPosNoSelection = Some(s.pos)]
    ELSE st

CaptureTouchdown(st, s, multiClickMapper) ==
    IF multiClickMapper = 1 /\ ~s.hasSelection
    THEN [st EXCEPT !.singleClickTouchdownPos = Some(s.pos),
                    !.singleClickTouchdownTerminalPos = Some(s.cell),
                    !.lastMouseClickPosNoSelection = Some(s.pos)]
    ELSE st

\* LeftClickOnTerminal takes _selectionNeedsToBeCopied by reference: the core
\* may leave it or write it.
FlagAfterLeftClick(st, s) ==
    CASE s.clickWritesFlag = "true" -> TRUE
      [] s.clickWritesFlag = "false" -> FALSE
      [] OTHER -> st.selectionNeedsToBeCopied

\* mutant: the position is compared before the press is captured
PressedLeftClick_ComparesBeforeCapture(st, s) ==
    LET c == NumberOfClicks(st, s.pos, s.time)
    IN  IF c.raised THEN c
        ELSE LET multiClickMapper == MultiClickMapper(c.clickRet)
                 t == CaptureTouchdown(c, s, multiClickMapper)
                 isOnOriginalPosition == c.lastMouseClickPosNoSelection = Some(s.pos)
             IN  [Did(t, "LeftClickOnTerminal",
                      <<s.cell, multiClickMapper, s.alt, s.shift,
                        isOnOriginalPosition, t.selectionNeedsToBeCopied>>)
                    EXCEPT !.selectionNeedsToBeCopied = FlagAfterLeftClick(t, s)]

PressedLeftClick(st, s) ==
    LET c == NumberOfClicks(st, s.pos, s.time)
    IN  IF c.raised THEN c
        ELSE LET multiClickMapper == MultiClickMapper(c.clickRet)
                 t == CaptureTouchdown(c, s, multiClickMapper)
                 isOnOriginalPosition == t.lastMouseClickPosNoSelection = Some(s.pos)
             IN  [Did(t, "LeftClickOnTerminal",
                      <<s.cell, multiClickMapper, s.alt, s.shift,
                        isOnOriginalPosition, t.selectionNeedsToBeCopied>>)
                    EXCEPT !.selectionNeedsToBeCopied = FlagAfterLeftClick(t, s)]

\* mutant: a right click pastes whatever the selection is
PressedRightClick_AlwaysPaste(st, s) ==
    PasteTextFromClipboard(st)

PressedRightClick(st, s) ==
    IF s.copyOnSelect \/ ~s.hasSelection
    THEN PasteTextFromClipboard(st)
    ELSE CopySelectionToClipboard(st, s.shift)

\* mutant: VT forwarding is tried before the hyperlink
PressedOutcome_VtFirst(st, s) ==
    IF IsMouseOrPen(s)
    THEN IF CanSendVTMouseInput(s)
         THEN TrySendMouseEvent(st, s)
         ELSE IF s.left /\ s.ctrl /\ s.hyperlink # ""
         THEN PressedHyperlink(st, s)
         ELSE IF s.left
         THEN PressedLeftClick(st, s)
         ELSE IF s.right
         THEN PressedRightClick(st, s)
         ELSE st
    ELSE IF s.type = "Touch"
    THEN [st EXCEPT !.touchAnchor = Some(s.contact)]
    ELSE st

\* mutant: a press over a link is forwarded as well
PressedOutcome_FallThrough(st, s) ==
    IF IsMouseOrPen(s)
    THEN IF s.left /\ s.ctrl /\ s.hyperlink # ""
         THEN LET h == PressedHyperlink(st, s)
              IN  IF CanSendVTMouseInput(s) THEN TrySendMouseEvent(h, s) ELSE h
         ELSE IF CanSendVTMouseInput(s)
         THEN TrySendMouseEvent(st, s)
         ELSE IF s.left
         THEN PressedLeftClick(st, s)
         ELSE IF s.right
         THEN PressedRightClick(st, s)
         ELSE st
    ELSE IF s.type = "Touch"
    THEN [st EXCEPT !.touchAnchor = Some(s.contact)]
    ELSE st

\* mutant: the touch anchor is the pointer position
PressedOutcome_TouchAtPosition(st, s) ==
    IF IsMouseOrPen(s)
    THEN IF s.left /\ s.ctrl /\ s.hyperlink # ""
         THEN PressedHyperlink(st, s)
         ELSE IF CanSendVTMouseInput(s)
         THEN TrySendMouseEvent(st, s)
         ELSE IF s.left
         THEN PressedLeftClick(st, s)
         ELSE IF s.right
         THEN PressedRightClick(st, s)
         ELSE st
    ELSE IF s.type = "Touch"
    THEN [st EXCEPT !.touchAnchor = Some(s.pos)]
    ELSE st

PressedOutcome(st, s) ==
    IF IsMouseOrPen(s)
    THEN IF s.left /\ s.ctrl /\ s.hyperlink # ""
         THEN PressedHyperlink(st, s)
         ELSE IF CanSendVTMouseInput(s)
         THEN TrySendMouseEvent(st, s)
         ELSE IF s.left
         THEN PressedLeftClick(st, s)
         ELSE IF s.right
         THEN PressedRightClick(st, s)
         ELSE st
    ELSE IF s.type = "Touch"
    THEN [st EXCEPT !.touchAnchor = Some(s.contact)]
    ELSE st

(***************************************************************************)
(* PointerMoved (lines 233-339).                                           *)
(***************************************************************************)
\* mutant: the selection end follows the pointer only once the drag started
MovedDrag_AfterThreshold(st, s) ==
    IF HasValue(st.singleClickTouchdownPos)
    THEN IF MovedQuarterCell(s, Value(st.singleClickTouchdownPos))
         THEN SetEndSelectionPoint(
                  [Did(st, "SetSelectionAnchor", <<s.cell>>)
                     EXCEPT !.singleClickTouchdownPos = None,
                            !.singleClickTouchdownTerminalPos = None], s.cell)
         ELSE st
    ELSE SetEndSelectionPoint(st, s.cell)

MovedDrag(st, s) ==
    LET a == IF HasValue(st.singleClickTouchdownPos)
                  /\ MovedQuarterCell(s, Value(st.singleClickTouchdownPos))
             THEN [Did(st, "SetSelectionAnchor", <<s.cell>>)
                     EXCEPT !.singleClickTouchdownPos = None,
                            !.singleClickTouchdownTerminalPos = None]
             ELSE st
    IN  SetEndSelectionPoint(a, s.cell)

\* mutant: the row count is not inverted
NewScrollValue_SameSign(s, dy) ==
    LET h == FontSizeInDips(s)[2]
    IN  <<s.scrollOffset * h + dy, h>>

\* numRows + currentOffset = -(dy / height) + offset, kept as a fraction
\* <<numerator, denominator>> (lines 320-324)
NewScrollValue(s, dy) ==
    LET h == FontSizeInDips(s)[2]
    IN  <<s.scrollOffset * h - dy, h>>

\* mutant: a scroll keeps the anchor of the touch-down
MovedTouch_KeepsAnchor(st, s) ==
    LET dy == s.contact[2] - Value(st.touchAnchor)[2]
    IN  IF MovedHalfRow(s, dy)
        THEN Did(st, "UserScrollViewport", <<NewScrollValue(s, dy)>>)
        ELSE st

MovedTouch(st, s) ==
    LET dy == s.contact[2] - Value(st.touchAnchor)[2]
    IN  IF MovedHalfRow(s, dy)
        THEN [Did(st, "UserScrollViewport", <<NewScrollValue(s, dy)>>)
                EXCEPT !.touchAnchor = Some(s.contact)]
        ELSE st

\* mutant: a forwarded move with the left button held also drags
MovedOutcome_ForwardAndDrag(st, s) ==
    IF IsMouseOrPen(s)
    THEN LET m == IF s.focused /\ ~s.readOnly /\ CanSendVTMouseInput(s)
                  THEN IF s.left
                       THEN MovedDrag(TrySendMouseEvent(st, s), s)
                       ELSE TrySendMouseEvent(st, s)
                  ELSE IF s.focused /\ s.left
                  THEN MovedDrag(st, s)
                  ELSE st
         IN  Did(m, "UpdateHoveredCell", <<s.cell>>)
    ELSE IF s.focused /\ s.type = "Touch" /\ HasValue(st.touchAnchor)
    THEN MovedTouch(st, s)
    ELSE st

MovedOutcome(st, s) ==
    IF IsMouseOrPen(s)
    THEN LET m == IF s.focused /\ ~s.readOnly /\ CanSendVTMouseInput(s)
                  THEN TrySendMouseEvent(st, s)
                  ELSE IF s.focused /\ s.left
                  THEN MovedDrag(st, s)
                  ELSE st
         IN  Did(m, "UpdateHoveredCell", <<s.cell>>)
    ELSE IF s.focused /\ s.type = "Touch" /\ HasValue(st.touchAnchor)
    THEN MovedTouch(st, s)
    ELSE st

(***************************************************************************)
(* PointerReleased (lines 341-374).                                        *)
(***************************************************************************)
ClearTouchdown(st) ==
    [st EXCEPT !.singleClickTouchdownPos = None,
               !.singleClickTouchdownTerminalPos = None]

\* mutant: a release is forwarded in read-only mode too
ReleasedOutcome_ForwardsReadOnly(st, s) ==
    IF IsMouseOrPen(s)
    THEN IF CanSendVTMouseInput(s)
         THEN TrySendMouseEvent(st, s)
         ELSE IF s.copyOnSelect /\ s.kind = "LeftButtonReleased"
                 /\ st.selectionNeedsToBeCopied
         THEN ClearTouchdown(CopySelectionToClipboard(st, FALSE))
         ELSE ClearTouchdown(st)
    ELSE IF s.type = "Touch"
    THEN ClearTouchdown([st EXCEPT !.touchAnchor = None])
    ELSE ClearTouchdown(st)

\* mutant: the release of any button copies
ReleasedOutcome_AnyButton(st, s) ==
    IF IsMouseOrPen(s)
    THEN IF ~s.readOnly /\ CanSendVTMouseInput(s)
         THEN TrySendMouseEvent(st, s)
         ELSE IF s.copyOnSelect /\ st.selectionNeedsToBeCopied
         THEN ClearTouchdown(CopySelectionToClipboard(st, FALSE))
         ELSE ClearTouchdown(st)
    ELSE IF s.type = "Touch"
    THEN ClearTouchdown([st EXCEPT !.touchAnchor = None])
    ELSE ClearTouchdown(st)

ReleasedOutcome(st, s) ==
    IF IsMouseOrPen(s)
    THEN IF ~s.readOnly /\ CanSendVTMouseInput(s)
         THEN TrySendMouseEvent(st, s)                     \* return;
         ELSE IF s.copyOnSelect /\ s.kind = "LeftButtonReleased"
                   /\ st.selectionNeedsToBeCopied
         THEN ClearTouchdown(CopySelectionToClipboard(st, FALSE))
         ELSE ClearTouchdown(st)
    ELSE IF s.type = "Touch"
    THEN ClearTouchdown([st EXCEPT !.touchAnchor = None])
    ELSE ClearTouchdown(st)

(***************************************************************************)
(* Pointer samples.  A sample holds what the handler is passed (device     *)
(* kind, PointerPoint properties, modifiers, terminal position, focus) and  *)
(* what the core answers to the handler's queries while it runs; copied    *)
(* is what the core's CopySelectionToClipboard returns.                     *)
(***************************************************************************)
Times == {t * 1000 : t \in 0 .. MaxTime}                 \* microseconds
Points == {<<0, y>> : y \in 0 .. MaxCoord}
Uri == "https://example.com"

Base ==
    [type |-> "Mouse", kind |-> "Other",
     left |-> FALSE, middle |-> FALSE, right |-> FALSE,
     shift |-> FALSE, ctrl |-> FALSE, alt |-> FALSE,
     pos |-> <<0, 0>>, contact |-> <<0, 0>>, cell |-> <<0, 0>>, time |-> 0,
     wheel |-> 0, horizontalWheel |-> FALSE, focused |-> TRUE,
     vtMouseMode |-> FALSE, hasSelection |-> FALSE, copyOnSelect |-> FALSE,
     readOnly |-> FALSE, hyperlink |-> "", scrollOffset |-> 0,
     font |-> <<8, 8>>, scale |-> 200, clickWritesFlag |-> "keep",
     copied |-> TRUE]

\* the cell under a screen position, as the caller of the handlers computes
\* terminalPosition: the position over the font size
CellAt(p) ==
    <<p[1] \div FontSizeInDips(Base)[1], p[2] \div FontSizeInDips(Base)[2]>>

At(s, p) == [s EXCEPT !.pos = p, !.contact = p, !.cell = CellAt(p)]

LeftPress == [Base EXCEPT !.kind = "LeftButtonPressed", !.left = TRUE]
RightPress == [Base EXCEPT !.kind = "RightButtonPressed", !.right = TRUE]
LeftRelease == [Base EXCEPT !.kind = "LeftButtonReleased"]
RightRelease == [Base EXCEPT !.kind = "RightButtonReleased"]
LeftHeldMove == [Base EXCEPT !.left = TRUE]

(***************************************************************************)
(* The state after construction (lines 28-36).  _multiClickCounter and      *)
(* _multiClickTimer are not written by the constructor: the counter is not  *)
(* read before _NumberOfClicks writes it (the stored position is empty),    *)
(* the timer holds any value until Initialize().                            *)
(***************************************************************************)
UninitializedTimers == {0, MaxTime * 1000}

Constructed(timers) ==
    /\ touchAnchor = None
    /\ multiClickTimer \in timers
    /\ multiClickCounter = 0
    /\ lastMouseClickTimestamp = 0
    /\ lastMouseClickPos = None
    /\ singleClickTouchdownPos = None
    /\ singleClickTouchdownTerminalPos = None
    /\ lastMouseClickPosNoSelection = None
    /\ selectionNeedsToBeCopied = FALSE
    /\ ev = [handler |-> "Constructor", s |-> Base]
    /\ calls = <<>>
    /\ clickRet = 0
    /\ raised = FALSE
    /\ lastRet = 0
    /\ firstClickPos = None

Init == Constructed(UninitializedTimers)

\* Initialize (lines 43-47)
Initialize ==
    /\ multiClickTimer' = GetDoubleClickTime * 1000
    /\ ev' = [handler |-> "Initialize", s |-> Base]
    /\ calls' = <<>>
    /\ clickRet' = 0
    /\ raised' = FALSE
    /\ UNCHANGED <<interactionVars, lastRet, firstClickPos>>

\* the state after construction and Initialize()
InitInitialized == Constructed({GetDoubleClickTime * 1000})

Handled(handler, s, r) ==
    /\ r.multiClickCounter <= MaxClicks
    /\ touchAnchor' = r.touchAnchor
    /\ multiClickCounter' = r.multiClickCounter
    /\ lastMouseClickTimestamp' = r.lastMouseClickTimestamp
    /\ lastMouseClickPos' = r.lastMouseClickPos
    /\ singleClickTouchdownPos' = r.singleClickTouchdownPos
    /\ singleClickTouchdownTerminalPos' = r.singleClickTouchdownTerminalPos
    /\ lastMouseClickPosNoSelection' = r.lastMouseClickPosNoSelection
    /\ selectionNeedsToBeCopied' = r.selectionNeedsToBeCopied
    /\ calls' = r.calls
    /\ clickRet' = r.clickRet
    /\ raised' = r.raised
    /\ lastRet' = IF r.clickRet # 0 THEN r.clickRet ELSE lastRet
    /\ firstClickPos' =
           IF /\ r.clickRet = 1 /\ ~s.hasSelection
              /\ \E c \in 1 .. Len(r.calls) : r.calls[c].fn = "LeftClickOnTerminal"
           THEN Some(s.pos)
           ELSE firstClickPos
    /\ ev' = [handler |-> handler, s |-> s]
    /\ UNCHANGED multiClickTimer

PointerPressed(s) == Handled("PointerPressed", s, PressedOutcome(Cur, s))
PointerMoved(s) == Handled("PointerMoved", s, MovedOutcome(Cur, s))
PointerReleased(s) == Handled("PointerReleased", s, ReleasedOutcome(Cur, s))

\* CopySelectionToClipboard called by the owner of the control (the copy
\* action), not by a pointer handler
CopySelectionCalled(s, singleLine) ==
    Handled("CopySelectionToClipboard", s, CopySelectionToClipboard(Cur, singleLine))

(***************************************************************************)
(* Clicking: left presses of a mouse at two positions and at any time,      *)
(* plain, with a selection, and with Ctrl over a link.                      *)
(***************************************************************************)
ClickKinds ==
    {LeftPress,
     [LeftPress EXCEPT !.hasSelection = TRUE],
     [LeftPress EXCEPT !.ctrl = TRUE, !.hyperlink = Uri]}
ClickPresses ==
    {[At(k, p) EXCEPT !.time = t]
        : k \in ClickKinds, p \in {<<0, 0>>, <<0, MaxCoord>>}, t \in Times}
ClickMoves == {At(LeftHeldMove, <<0, MaxCoord>>)}
ClickReleases == {LeftRelease}

Next ==
    \/ Initialize
    \/ \E s \in ClickPresses : PointerPressed(s)
    \/ \E s \in ClickMoves : PointerMoved(s)
    \/ \E s \in ClickReleases : PointerReleased(s)

Spec == Init /\ [][Next]_vars

(***************************************************************************)
(* Dispatch of a press: device kinds, buttons, Shift, Ctrl, VT mouse mode   *)
(* and links in every combination, at one position, at two times.           *)
(***************************************************************************)
DispatchLeftPresses ==
    {[LeftPress EXCEPT !.shift = sh, !.ctrl = c, !.vtMouseMode = vt,
                       !.hyperlink = h]
        : sh \in BOOLEAN, c \in BOOLEAN, vt \in BOOLEAN, h \in {"", Uri}}
DispatchPresses ==
    {[k EXCEPT !.time = t] : k \in DispatchLeftPresses, t \in {0, MaxTime * 1000}}
    \cup {[k EXCEPT !.type = "Pen"] : k \in DispatchLeftPresses}
    \cup {[RightPress EXCEPT !.left = l, !.ctrl = l, !.hyperlink = Uri,
                             !.vtMouseMode = m[1], !.shift = m[2],
                             !.hasSelection = sel, !.copyOnSelect = cos]
            : l \in BOOLEAN, sel \in BOOLEAN, cos \in BOOLEAN,
              m \in {<<FALSE, FALSE>>, <<TRUE, FALSE>>, <<TRUE, TRUE>>}}
    \cup {[LeftPress EXCEPT !.type = ty] : ty \in {"Touch", "Other"}}
    \cup {[LeftPress EXCEPT !.kind = k, !.ctrl = c, !.hyperlink = Uri]
            : k \in {"RightButtonPressed", "MiddleButtonPressed"}, c \in BOOLEAN}
    \cup {[LeftPress EXCEPT !.type = "Touch", !.ctrl = TRUE, !.hyperlink = Uri]}
DispatchMoves == {LeftHeldMove}
DispatchReleases == {LeftRelease, [LeftRelease EXCEPT !.type = "Touch"]}

NextDispatch ==
    \/ \E s \in DispatchPresses : PointerPressed(s)
    \/ \E s \in DispatchMoves : PointerMoved(s)
    \/ \E s \in DispatchReleases : PointerReleased(s)

SpecDispatch == InitInitialized /\ [][NextDispatch]_vars

(***************************************************************************)
(* Selecting by drag: a left press, moves to every position with the left   *)
(* button held or not, focused or not, forwarded or not, and releases.      *)
(***************************************************************************)
DragPoints == {<<0, 0>>, <<0, 1>>, <<0, MaxCoord>>}
DragPresses ==
    {[At(LeftPress, p) EXCEPT !.hasSelection = sel]
        : p \in {<<0, 0>>, <<0, MaxCoord>>}, sel \in BOOLEAN}
DragMoves ==
    {[At(Base, p) EXCEPT !.left = l, !.focused = f, !.vtMouseMode = m[1],
                         !.readOnly = m[2]]
        : p \in DragPoints, l \in BOOLEAN, f \in BOOLEAN,
          m \in {<<FALSE, FALSE>>, <<TRUE, FALSE>>, <<TRUE, TRUE>>}}
    \* a held move of one DIP in a font twice as large: an eighth of a cell
    \cup {[At(LeftHeldMove, <<0, 1>>) EXCEPT !.font = <<16, 16>>]}
DragReleases ==
    {[k EXCEPT !.copyOnSelect = cos, !.vtMouseMode = vt, !.readOnly = ro]
        : k \in {LeftRelease, RightRelease}, cos \in BOOLEAN, vt \in BOOLEAN,
          ro \in BOOLEAN}

NextDrag ==
    \/ \E s \in DragPresses : PointerPressed(s)
    \/ \E s \in DragMoves : PointerMoved(s)
    \/ \E s \in DragReleases : PointerReleased(s)

SpecDrag == InitInitialized /\ [][NextDrag]_vars

(***************************************************************************)
(* Panning by touch: touch presses, touch moves to every position, focused  *)
(* or not, touch releases, and between them the press, held move and        *)
(* release of a mouse and of a device of an unknown kind.                   *)
(***************************************************************************)
TouchContact == [Base EXCEPT !.type = "Touch"]
TouchPresses ==
    \* the pointer position is inside the contact rectangle, not at its origin
    {[At([TouchContact EXCEPT !.kind = "LeftButtonPressed", !.left = TRUE], p)
         EXCEPT !.pos = <<1, p[2] + 1>>]
        : p \in {<<0, 0>>, <<0, MaxCoord>>}}
TouchMoves ==
    {[At(TouchContact, p) EXCEPT !.left = TRUE, !.focused = f,
                                 !.scrollOffset = o]
        : p \in Points, f \in BOOLEAN, o \in {0, MaxCoord}}
TouchReleases == {[TouchContact EXCEPT !.kind = "LeftButtonReleased"]}
TouchMousePresses == {LeftPress}
TouchMouseMoves == {At(LeftHeldMove, <<0, MaxCoord>>)}
TouchMouseReleases == {LeftRelease}
\* events of a device that is neither mouse, pen nor touch
UnknownDevice(s) == [s EXCEPT !.type = "Other", !.copyOnSelect = TRUE]
UnknownPresses ==
    {UnknownDevice(s)
        : s \in {LeftPress, [LeftPress EXCEPT !.vtMouseMode = TRUE],
                 [LeftPress EXCEPT !.ctrl = TRUE, !.hyperlink = Uri], RightPress}}
UnknownMoves ==
    {UnknownDevice(s)
        : s \in {At(LeftHeldMove, <<0, MaxCoord>>),
                 [LeftHeldMove EXCEPT !.vtMouseMode = TRUE]}}
UnknownReleases ==
    {UnknownDevice(s) : s \in {LeftRelease, [LeftRelease EXCEPT !.vtMouseMode = TRUE]}}

NextTouch ==
    \/ \E s \in TouchPresses \cup TouchMousePresses \cup UnknownPresses :
          PointerPressed(s)
    \/ \E s \in TouchMoves \cup TouchMouseMoves \cup UnknownMoves :
          PointerMoved(s)
    \/ \E s \in TouchReleases \cup TouchMouseReleases \cup UnknownReleases :
          PointerReleased(s)

SpecTouch == InitInitialized /\ [][NextTouch]_vars

(***************************************************************************)
(* Forwarding to the VT mouse protocol: presses, held moves and releases    *)
(* under every combination of Shift, VT mouse mode, focus and read-only,    *)
(* and, with VT mouse mode on, every update kind with every wheel delta.    *)
(***************************************************************************)
ForwardModes == [shift : BOOLEAN, vt : BOOLEAN, focused : BOOLEAN, ro : BOOLEAN]
InMode(s, m) ==
    [s EXCEPT !.shift = m.shift, !.vtMouseMode = m.vt, !.focused = m.focused,
              !.readOnly = m.ro]
Wheels == {0, 120, -120, SHORT_MAX + 1, -SHORT_MAX - 2}
Wheeled(kinds, left) ==
    {[Base EXCEPT !.vtMouseMode = TRUE, !.kind = k, !.left = left,
                  !.wheel = w, !.horizontalWheel = hz]
        : k \in kinds, w \in Wheels, hz \in BOOLEAN}

ForwardPresses ==
    {InMode(k, m)
        : k \in {LeftPress, [LeftPress EXCEPT !.ctrl = TRUE, !.hyperlink = Uri]},
          m \in ForwardModes}
    \cup Wheeled({"LeftButtonPressed"}, TRUE)
    \cup Wheeled({"MiddleButtonPressed", "RightButtonPressed",
                  "XButton1Pressed"}, FALSE)
ForwardMoves ==
    {InMode(At(LeftHeldMove, p), m)
        : p \in {<<0, 0>>, <<0, MaxCoord>>}, m \in ForwardModes}
    \cup Wheeled({"Other"}, FALSE)
ForwardReleases ==
    {InMode([LeftRelease EXCEPT !.copyOnSelect = TRUE], m) : m \in ForwardModes}
    \cup Wheeled({"LeftButtonReleased", "MiddleButtonReleased",
                  "RightButtonReleased"}, FALSE)

NextForward ==
    \/ \E s \in ForwardPresses : PointerPressed(s)
    \/ \E s \in ForwardMoves : PointerMoved(s)
    \/ \E s \in ForwardReleases : PointerReleased(s)

SpecForward == InitInitialized /\ [][NextForward]_vars

(***************************************************************************)
(* Copying: left presses after which the core has left or written the       *)
(* flag it was handed, right presses with a selection, held moves,          *)
(* releases with copy-on-select, and CopySelectionToClipboard called        *)
(* directly; the core copies something or nothing.                          *)
(***************************************************************************)
CopyPresses ==
    {[LeftPress EXCEPT !.clickWritesFlag = w, !.hasSelection = sel]
        : w \in {"keep", "true", "false"}, sel \in BOOLEAN}
    \cup {[RightPress EXCEPT !.hasSelection = sel, !.copied = ok]
            : sel \in BOOLEAN, ok \in BOOLEAN}
CopyMoves ==
    {[At(Base, p) EXCEPT !.left = l]
        : p \in {<<0, 0>>, <<0, MaxCoord>>}, l \in BOOLEAN}
CopyReleases ==
    {[LeftRelease EXCEPT !.copyOnSelect = cos, !.copied = ok]
        : cos \in BOOLEAN, ok \in BOOLEAN}
CopyCalls == {[Base EXCEPT !.copied = ok] : ok \in BOOLEAN}

NextCopy ==
    \/ \E s \in CopyPresses : PointerPressed(s)
    \/ \E s \in CopyMoves : PointerMoved(s)
    \/ \E s \in CopyReleases : PointerReleased(s)
    \/ \E s \in CopyCalls, singleLine \in BOOLEAN : CopySelectionCalled(s, singleLine)

SpecCopy == InitInitialized /\ [][NextCopy]_vars

(***************************************************************************)
(* What the last event was and what it did.                                *)
(***************************************************************************)
CallsOf(fn) == SelectSeq(calls, LAMBDA c : c.fn = fn)
NumCalls(fn) == Len(CallsOf(fn))

Pressed == ev.handler = "PointerPressed"
Moved == ev.handler = "PointerMoved"
Released == ev.handler = "PointerReleased"

MousePress == Pressed /\ IsMouseOrPen(ev.s)
LeftButtonPress == MousePress /\ ev.s.kind = "LeftButtonPressed" /\ ev.s.left
OverLink == ev.s.ctrl /\ ev.s.hyperlink # ""
VtEnabled == ev.s.vtMouseMode

Forwarded == NumCalls("SendMouseEvent") > 0
Activated == NumCalls("OpenHyperlink") > 0
LocalClick == NumCalls("LeftClickOnTerminal") > 0
Interpretations ==
    (IF Forwarded THEN 1 ELSE 0) + (IF Activated THEN 1 ELSE 0)
        + (IF LocalClick THEN 1 ELSE 0)

\* the event is at the stored click position and inside the window of the
\* stored click (read before the event: use it primed against the old state)
SameSpotInWindow(s) ==
    /\ Some(s.pos) = lastMouseClickPos
    /\ s.time >= lastMouseClickTimestamp
    /\ s.time - lastMouseClickTimestamp <= multiClickTimer

\* the last event called _NumberOfClicks
ClickAttempted == clickRet # 0 \/ raised

(***************************************************************************)
(* C1 as stated: every click handed to _NumberOfClicks at the stored        *)
(* position and within the multi-click window of the stored click returns   *)
(* the previous return plus 1; every click at another position, or later    *)
(* than the window, returns 1.                                              *)
(***************************************************************************)
C1_EveryClickCounted ==
    [][ClickAttempted' =>
         IF SameSpotInWindow(ev'.s)
         THEN clickRet' = lastRet + 1
         ELSE (\/ Some(ev'.s.pos) # lastMouseClickPos
               \/ ev'.s.time - lastMouseClickTimestamp > multiClickTimer)
                  => clickRet' = 1]_vars

(***************************************************************************)
(* C1, what the code does keep: a call of _NumberOfClicks fails only for a  *)
(* timestamp earlier than the stored one, and every call that returns       *)
(* gives the previous return plus 1 at the stored position within the       *)
(* window, and 1 otherwise.                                                 *)
(***************************************************************************)
C1_ClickCountSequence ==
    [][/\ raised' => ev'.s.time < lastMouseClickTimestamp
       /\ clickRet' # 0 =>
            IF SameSpotInWindow(ev'.s)
            THEN clickRet' = lastRet + 1
            ELSE clickRet' = 1]_vars

C1_ThirdClickInARow == Pressed /\ clickRet = 3 /\ lastRet = 3

C3_ExactlyOneInterpretation ==
    LeftButtonPress /\ ~raised => Interpretations = 1

(***************************************************************************)
(* C3 amended: for every left-button press of a mouse or pen at most one    *)
(* of the three happens; none happens exactly when the press is a Ctrl      *)
(* press over a link whose click count is not 1, or when registering the    *)
(* click failed.                                                            *)
(***************************************************************************)
C3_AtMostOneInterpretation ==
    LeftButtonPress =>
        /\ Interpretations <= 1
        /\ Interpretations = 0 <=> (raised \/ (OverLink /\ clickRet # 1))

C3_SecondLinkClickDoesNothing ==
    LeftButtonPress /\ OverLink /\ clickRet = 2 /\ Interpretations = 0

(***************************************************************************)
(* C4: a left press of a mouse or pen with Ctrl held over a link is handled *)
(* by the hyperlink branch, also when VT mouse mode is enabled and Shift is *)
(* not held: the click is registered there, and neither SendMouseEvent nor  *)
(* LeftClickOnTerminal is called.                                           *)
(***************************************************************************)
C4_HyperlinkFirst ==
    MousePress /\ ev.s.left /\ OverLink =>
        /\ ~Forwarded
        /\ ~LocalClick
        /\ clickRet # 0 \/ raised
        /\ clickRet = 1 => calls = <<Call("OpenHyperlink", <<ev.s.hyperlink>>)>>

C4_LinkOpenedInMouseMode ==
    /\ MousePress /\ ev.s.left /\ OverLink
    /\ VtEnabled /\ ~ev.s.shift
    /\ calls = <<Call("OpenHyperlink", <<Uri>>)>>

(***************************************************************************)
(* C5 as stated: with VT mouse mode enabled and Shift not held every left   *)
(* press of a mouse is forwarded and registers no click.                    *)
(***************************************************************************)
C5_AlwaysForwarded ==
    LeftButtonPress /\ VtEnabled /\ ~ev.s.shift =>
        /\ NumCalls("SendMouseEvent") = 1
        /\ ~LocalClick /\ ~Activated /\ clickRet = 0 /\ ~raised

(***************************************************************************)
(* C5 amended: with VT mouse mode enabled and Shift not held every left     *)
(* press of a mouse that is not a Ctrl press over a link is forwarded with  *)
(* SendMouseEvent, and it reaches neither LeftClickOnTerminal nor the       *)
(* hyperlink activator and registers no click.                              *)
(***************************************************************************)
C5_ForwardedUnlessOverLink ==
    LeftButtonPress /\ VtEnabled /\ ~ev.s.shift /\ ~OverLink =>
        /\ NumCalls("SendMouseEvent") = 1
        /\ ~LocalClick /\ ~Activated /\ clickRet = 0 /\ ~raised

C5_CtrlPressForwarded ==
    /\ LeftButtonPress /\ VtEnabled /\ ~ev.s.shift /\ ev.s.ctrl /\ ~OverLink
    /\ Len(calls) = 1 /\ calls[1].fn = "SendMouseEvent"

(***************************************************************************)
(* C6 as stated: with VT mouse mode enabled and Shift held a left press of  *)
(* a mouse or pen is not forwarded, registers a click and calls             *)
(* LeftClickOnTerminal with shiftHeld = TRUE (looked at for the presses     *)
(* that did not fail in registering the click).                             *)
(***************************************************************************)
C6_ShiftPressIsLocalClick ==
    LeftButtonPress /\ VtEnabled /\ ev.s.shift /\ ~raised =>
        /\ ~Forwarded
        /\ clickRet >= 1
        /\ NumCalls("LeftClickOnTerminal") = 1
        /\ CallsOf("LeftClickOnTerminal")[1].args[4] = TRUE

(***************************************************************************)
(* C6 amended: with VT mouse mode enabled and Shift held a left press of a  *)
(* mouse or pen is never forwarded; unless it is a Ctrl press over a link,  *)
(* it registers a click and calls LeftClickOnTerminal once, with            *)
(* shiftHeld = TRUE, or, when its timestamp is earlier than the stored      *)
(* click's, fails in registering the click and calls nothing.               *)
(***************************************************************************)
C6_ShiftPressNotForwarded ==
    LeftButtonPress /\ VtEnabled /\ ev.s.shift =>
        /\ ~Forwarded
        /\ ~OverLink =>
             IF ev.s.time < lastMouseClickTimestamp
             THEN raised /\ calls = <<>> /\ clickRet = 0
             ELSE /\ ~raised
                  /\ clickRet >= 1
                  /\ Len(calls) = 1
                  /\ calls[1].fn = "LeftClickOnTerminal"
                  /\ calls[1].args[4] = TRUE

C6_ShiftClickInMouseMode ==
    /\ LeftButtonPress /\ VtEnabled /\ ev.s.shift /\ ~OverLink
    /\ LocalClick /\ clickRet = 2

(***************************************************************************)
(* C7: a Ctrl+left-click over a link with click count 1 raises one          *)
(* activation signal, with the link of the cell; a Ctrl+left-click at the   *)
(* stored click position within the multi-click window has a click count of *)
(* 2 or more and raises none.                                               *)
(***************************************************************************)
C7_ActivateOnFirstClickOnly ==
    [][(MousePress /\ ev.s.left /\ OverLink)' =>
         /\ clickRet' = 1 => calls' = <<Call("OpenHyperlink", <<ev'.s.hyperlink>>)>>
         /\ clickRet' # 1 => calls' = <<>>
         /\ SameSpotInWindow(ev'.s) => clickRet' >= 2]_vars

C7_SecondLinkClickSilent ==
    MousePress /\ ev.s.left /\ OverLink /\ clickRet = 2 /\ calls = <<>>

(***************************************************************************)
(* C8 as stated: the move that crosses the quarter-cell threshold calls     *)
(* SetSelectionAnchor with the cell captured at touchdown, whatever cell    *)
(* the pointer is over.                                                     *)
(***************************************************************************)
C8_AnchorAtTouchdownCell ==
    [][(Moved /\ NumCalls("SetSelectionAnchor") > 0)' =>
         /\ HasValue(singleClickTouchdownTerminalPos)
         /\ CallsOf("SetSelectionAnchor")'[1].args[1]
                = Value(singleClickTouchdownTerminalPos)]_vars

(***************************************************************************)
(* C9 as stated: every move of a mouse or pen with the left button held     *)
(* that is not forwarded calls SetEndSelectionPoint with the current cell   *)
(* and leaves _selectionNeedsToBeCopied true.                               *)
(***************************************************************************)
C9_EveryLeftHeldMoveExtends ==
    Moved /\ IsMouseOrPen(ev.s) /\ ev.s.left /\ ~Forwarded =>
        /\ CallsOf("SetEndSelectionPoint") = <<Call("SetEndSelectionPoint", <<ev.s.cell>>)>>
        /\ selectionNeedsToBeCopied

(***************************************************************************)
(* C9 amended: every move of a mouse or pen received while the control is   *)
(* focused, with the left button held, that is not forwarded calls          *)
(* SetEndSelectionPoint once, with the current cell, and leaves             *)
(* _selectionNeedsToBeCopied true, whether or not a touchdown is pending    *)
(* and whether or not the drag threshold was crossed.                       *)
(***************************************************************************)
C9_FocusedLeftHeldMoveExtends ==
    Moved /\ IsMouseOrPen(ev.s) /\ ev.s.focused /\ ev.s.left /\ ~Forwarded =>
        /\ CallsOf("SetEndSelectionPoint") = <<Call("SetEndSelectionPoint", <<ev.s.cell>>)>>
        /\ selectionNeedsToBeCopied

C9_ExtendedBelowThreshold ==
    /\ Moved /\ IsMouseOrPen(ev.s) /\ ev.s.focused /\ ev.s.left /\ ~Forwarded
    /\ HasValue(singleClickTouchdownPos)
    /\ NumCalls("SetEndSelectionPoint") = 1
    /\ selectionNeedsToBeCopied

(***************************************************************************)
(* C10: a release of a mouse or pen that is not forwarded calls             *)
(* CopySelectionToClipboard once and clears _selectionNeedsToBeCopied when  *)
(* copy-on-select is on, the left button was released and the flag was      *)
(* set; otherwise it copies nothing and leaves the flag.  So the release    *)
(* that follows a copying release copies nothing.                           *)
(***************************************************************************)
C10_CopyOnceOnRelease ==
    [][(Released /\ IsMouseOrPen(ev.s) /\ ~Forwarded)' =>
         /\ IF ev'.s.copyOnSelect /\ ev'.s.kind = "LeftButtonReleased"
                /\ selectionNeedsToBeCopied
            THEN /\ CallsOf("CopySelectionToClipboard")'
                        = <<Call("CopySelectionToClipboard", <<FALSE>>)>>
                 /\ ~selectionNeedsToBeCopied'
            ELSE /\ NumCalls("CopySelectionToClipboard")' = 0
                 /\ selectionNeedsToBeCopied' = selectionNeedsToBeCopied
         /\ (Released /\ NumCalls("CopySelectionToClipboard") > 0)
                => NumCalls("CopySelectionToClipboard")' = 0]_vars

C10_CopiedOnRelease ==
    /\ Released /\ ev.s.copyOnSelect /\ ev.s.kind = "LeftButtonReleased"
    /\ NumCalls("CopySelectionToClipboard") = 1
    /\ ~selectionNeedsToBeCopied

(***************************************************************************)
(* C11 as stated: a right press of a mouse or pen, with the left button not *)
(* held, copies and does not paste when there is a selection and            *)
(* copy-on-select is off, and pastes (and does not copy) whenever there is  *)
(* no selection or copy-on-select is on.                                    *)
(***************************************************************************)
RightButtonPress ==
    MousePress /\ ev.s.kind = "RightButtonPressed" /\ ev.s.right /\ ~ev.s.left

RightClickCopiesOrPastes ==
    IF ev.s.copyOnSelect \/ ~ev.s.hasSelection
    THEN /\ CallsOf("PasteFromClipboard") = <<Call("PasteFromClipboard", <<>>)>>
         /\ NumCalls("CopySelectionToClipboard") = 0
    ELSE /\ CallsOf("CopySelectionToClipboard")
                = <<Call("CopySelectionToClipboard", <<ev.s.shift>>)>>
         /\ NumCalls("PasteFromClipboard") = 0

C11_RightClickAlwaysCopiesOrPastes ==
    RightButtonPress => RightClickCopiesOrPastes

(***************************************************************************)
(* C11: a right press of a mouse or pen, with the left button not held,     *)
(* that is not eligible for VT forwarding (Shift held or VT mouse mode      *)
(* off) copies once and does not paste when there is a selection and        *)
(* copy-on-select is off, and pastes once and does not copy otherwise; a    *)
(* right press that is forwarded neither copies nor pastes.                 *)
(***************************************************************************)
C11_LocalRightClickCopiesOrPastes ==
    RightButtonPress =>
        IF ev.s.shift \/ ~VtEnabled
        THEN RightClickCopiesOrPastes
        ELSE /\ NumCalls("PasteFromClipboard") = 0
             /\ NumCalls("CopySelectionToClipboard") = 0

C11_RightClickCopiedSelection ==
    /\ RightButtonPress /\ ev.s.hasSelection /\ ~ev.s.copyOnSelect
    /\ NumCalls("CopySelectionToClipboard") = 1
    /\ NumCalls("PasteFromClipboard") = 0

(***************************************************************************)
(* C12 as stated: a touch move while _touchAnchor holds a point calls       *)
(* UserScrollViewport exactly once if the vertical distance from the        *)
(* anchor is more than half the cell height in DIPs, and otherwise calls    *)
(* it not at all and leaves the anchor.                                     *)
(***************************************************************************)
TouchMove == Moved /\ ev.s.type = "Touch"
RowsFromAnchor(anchor, s) == s.contact[2] - Value(anchor)[2]
MoreThanHalfRow(anchor, s) ==
    2 * Abs(RowsFromAnchor(anchor, s)) > FontSizeInDips(s)[2]

C12_EveryTouchMoveScrollsPastHalfRow ==
    [][(TouchMove' /\ HasValue(touchAnchor)) =>
         IF MoreThanHalfRow(touchAnchor, ev'.s)
         THEN NumCalls("UserScrollViewport")' = 1
         ELSE /\ NumCalls("UserScrollViewport")' = 0
              /\ touchAnchor' = touchAnchor]_vars

(***************************************************************************)
(* C12: a touch move while the control is focused and _touchAnchor holds a  *)
(* point calls UserScrollViewport exactly once, and moves the anchor to     *)
(* the contact point, if the vertical distance from the anchor is more      *)
(* than half the cell height in DIPs; a move of at most half a cell, and    *)
(* every touch move while the control is not focused, calls it not at all   *)
(* and leaves the anchor.                                                   *)
(***************************************************************************)
C12_FocusedTouchMoveScrollsPastHalfRow ==
    [][(TouchMove' /\ HasValue(touchAnchor)) =>
         IF ev'.s.focused /\ MoreThanHalfRow(touchAnchor, ev'.s)
         THEN /\ NumCalls("UserScrollViewport")' = 1
              /\ touchAnchor' = Some(ev'.s.contact)
         ELSE /\ NumCalls("UserScrollViewport")' = 0
              /\ touchAnchor' = touchAnchor]_vars

\* a scroll, then a move of a quarter of a cell from the new anchor
C12_SmallMoveAfterScroll ==
    /\ TouchMove /\ ev.s.focused /\ HasValue(touchAnchor)
    /\ NumCalls("UserScrollViewport") = 0
    /\ Abs(ev.s.contact[2] - Value(touchAnchor)[2]) = 1
    /\ touchAnchor \notin {Some(s.contact) : s \in TouchPresses}

(***************************************************************************)
(* C13 as stated: after every PointerReleased, of whatever device kind and  *)
(* through whatever branch, _singleClickTouchdownPos is empty.              *)
(***************************************************************************)
C13_ReleaseClearsTouchdown ==
    Released =>
        /\ ~HasValue(singleClickTouchdownPos)
        /\ ~HasValue(singleClickTouchdownTerminalPos)

(***************************************************************************)
(* C13, what the code does keep: every release that is not forwarded to     *)
(* the core leaves the touchdown empty, and a forwarded release leaves it   *)
(* as it was.                                                               *)
(***************************************************************************)
C13_LocalReleaseClearsTouchdown ==
    [][Released' =>
         IF Forwarded'
         THEN UNCHANGED <<singleClickTouchdownPos,
                          singleClickTouchdownTerminalPos>>
         ELSE /\ ~HasValue(singleClickTouchdownPos')
              /\ ~HasValue(singleClickTouchdownTerminalPos')]_vars

C13_TouchdownSurvivesForwardedRelease ==
    Released /\ Forwarded /\ HasValue(singleClickTouchdownPos)

(***************************************************************************)
(* C14 as stated: in every reachable state _touchAnchor and                 *)
(* _singleClickTouchdownPos are not both set.                               *)
(***************************************************************************)
C14_AnchorAndTouchdownExclusive ==
    ~(HasValue(touchAnchor) /\ HasValue(singleClickTouchdownPos))

(***************************************************************************)
(* C15 as stated: an event of another device kind than the one that set     *)
(* the drag state clears it: a mouse or pen event leaves no _touchAnchor,   *)
(* and a touch event leaves no _singleClickTouchdownPos.                    *)
(***************************************************************************)
PointerEvent == Pressed \/ Moved \/ Released

C15_DeviceChangeClearsDragState ==
    [][PointerEvent' =>
         /\ (HasValue(touchAnchor) /\ IsMouseOrPen(ev'.s))
                => ~HasValue(touchAnchor')
         /\ (HasValue(singleClickTouchdownPos) /\ ev'.s.type = "Touch")
                => ~HasValue(singleClickTouchdownPos')]_vars

(***************************************************************************)
(* C15, what the code does: _touchAnchor is written by the touch press,     *)
(* the scrolling touch move and the touch release only, and no touch press  *)
(* or touch move writes _singleClickTouchdownPos.                           *)
(***************************************************************************)
C15_OtherDeviceLeavesDragState ==
    [][PointerEvent' =>
         /\ IsMouseOrPen(ev'.s) => touchAnchor' = touchAnchor
         /\ (ev'.s.type = "Touch" /\ ~Released')
                => singleClickTouchdownPos' = singleClickTouchdownPos]_vars

(***************************************************************************)
(* C16 as stated: no operation raises: every event of every sequence,       *)
(* a click with a timestamp smaller than the stored one included, runs to   *)
(* its end.                                                                 *)
(***************************************************************************)
C16_NothingRaises == ~raised

(***************************************************************************)
(* C16, what the code does: an event raises exactly when it is a click      *)
(* handed to _NumberOfClicks with a timestamp smaller than the stored one,  *)
(* and the event that raised has written nothing.                           *)
(***************************************************************************)
C16_RaisesOnEarlierTimestamp ==
    [][/\ raised' <=>
            /\ Pressed' /\ IsMouseOrPen(ev'.s) /\ ev'.s.left
            /\ ~CanSendVTMouseInput(ev'.s)
            /\ ev'.s.time < lastMouseClickTimestamp
       /\ raised' => UNCHANGED interactionVars]_vars

(***************************************************************************)
(* C17 as stated: a press, move or release of a mouse or pen is passed to   *)
(* SendMouseEvent exactly when Shift is not held and VT mouse mode is on,   *)
(* whatever the focus, the read-only mode and the handler, except for a     *)
(* Ctrl+left press over a link.                                             *)
(***************************************************************************)
MouseEvent == PointerEvent /\ IsMouseOrPen(ev.s)
LinkPress == Pressed /\ ev.s.left /\ OverLink

C17_ForwardedIffNoShiftAndVtMode ==
    MouseEvent =>
        (Forwarded <=> ~ev.s.shift /\ VtEnabled /\ ~LinkPress)

(***************************************************************************)
(* C17: a press of a mouse or pen is passed to SendMouseEvent exactly when  *)
(* Shift is not held, VT mouse mode is on and it is not a Ctrl+left press   *)
(* over a link; a release exactly when Shift is not held, VT mouse mode is  *)
(* on and the control is not read-only; a move exactly when Shift is not    *)
(* held, VT mouse mode is on, the control is not read-only and it is        *)
(* focused.                                                                 *)
(***************************************************************************)
C17_ForwardedPerHandler ==
    MouseEvent =>
        (Forwarded <=>
            /\ ~ev.s.shift /\ VtEnabled
            /\ Pressed => ~LinkPress
            /\ Released => ~ev.s.readOnly
            /\ Moved => ~ev.s.readOnly /\ ev.s.focused)

C17_ReadOnlyReleaseNotForwarded ==
    /\ MouseEvent /\ Released /\ ~ev.s.shift /\ VtEnabled /\ ev.s.readOnly
    /\ ~Forwarded

(***************************************************************************)
(* C18: an event that is passed to SendMouseEvent is passed once, calls     *)
(* none of LeftClickOnTerminal, SetSelectionAnchor, SetEndSelectionPoint    *)
(* and CopySelectionToClipboard, raises neither the hyperlink nor the       *)
(* paste signal, registers no click, and leaves the click state, the        *)
(* touchdown, the touch anchor and _selectionNeedsToBeCopied as they were.  *)
(***************************************************************************)
SelectionAndLinkCalls ==
    {"LeftClickOnTerminal", "SetSelectionAnchor", "SetEndSelectionPoint",
     "CopySelectionToClipboard", "OpenHyperlink", "PasteFromClipboard"}

C18_ForwardedEventDoesNothingElse ==
    [][(PointerEvent /\ Forwarded)' =>
         /\ NumCalls("SendMouseEvent")' = 1
         /\ \A c \in 1 .. Len(calls') : calls'[c].fn \notin SelectionAndLinkCalls
         /\ clickRet' = 0 /\ ~raised'
         /\ UNCHANGED interactionVars]_vars

\* a forwarded held move at a distance from a pending touchdown
C18_ForwardedMoveOverTouchdown ==
    /\ Moved /\ Forwarded /\ ev.s.left
    /\ HasValue(singleClickTouchdownPos)
    /\ Some(ev.s.pos) # singleClickTouchdownPos
    /\ ~selectionNeedsToBeCopied

(***************************************************************************)
(* C20: the message of a forwarded event is the wheel message exactly when  *)
(* the wheel delta of the sample is not zero and the wheel is not           *)
(* horizontal, whatever the update kind; otherwise it is the down or up     *)
(* message of the button of the update kind, and the move message for       *)
(* every update kind that is not one of the six button transitions.         *)
(***************************************************************************)
ButtonTransitions ==
    [LeftButtonPressed |-> WM_LBUTTONDOWN, LeftButtonReleased |-> WM_LBUTTONUP,
     MiddleButtonPressed |-> WM_MBUTTONDOWN, MiddleButtonReleased |-> WM_MBUTTONUP,
     RightButtonPressed |-> WM_RBUTTONDOWN, RightButtonReleased |-> WM_RBUTTONUP]
ForwardedButton == CallsOf("SendMouseEvent")[1].args[2]

C20_WheelOverridesButton ==
    (PointerEvent /\ Forwarded) =>
        /\ ForwardedButton = WM_MOUSEWHEEL
               <=> (ev.s.wheel # 0 /\ ~ev.s.horizontalWheel)
        /\ ForwardedButton # WM_MOUSEWHEEL =>
               ForwardedButton =
                   IF ev.s.kind \in DOMAIN ButtonTransitions
                   THEN ButtonTransitions[ev.s.kind]
                   ELSE WM_MOUSEMOVE

C20_WheelDuringLeftPress ==
    /\ Pressed /\ Forwarded /\ ev.s.kind = "LeftButtonPressed"
    /\ ev.s.wheel # 0 /\ ~ev.s.horizontalWheel
    /\ ForwardedButton = WM_MOUSEWHEEL

(***************************************************************************)
(* C19 as stated: after every call of CopySelectionToClipboard (by a        *)
(* release, by a right press, or directly) _selectionNeedsToBeCopied is     *)
(* false, whatever the core returns, and the flag goes from false to true   *)
(* only in a move that extends the selection end point.                     *)
(***************************************************************************)
CopyClearsFlag ==
    NumCalls("CopySelectionToClipboard") > 0 => ~selectionNeedsToBeCopied
ExtendingMove == Moved /\ NumCalls("SetEndSelectionPoint") = 1

OtherButtonPressWithLeftHeld ==
    /\ MousePress /\ ev.s.left
    /\ ev.s.kind \in {"RightButtonPressed", "MiddleButtonPressed"}

C21_ActivatedOnlyByLeftButtonPress ==
    /\ Activated => (LeftButtonPress /\ OverLink)
    /\ (OtherButtonPressWithLeftHeld \/ (PointerEvent /\ ev.s.type = "Touch"))
           => (~Activated /\ ~ClickAttempted)

(***************************************************************************)
(* C21, what the code does keep: the hyperlink signal is raised only by a   *)
(* press of a mouse or pen during which the left button is held, with Ctrl  *)
(* held over a link, whatever button went down; no touch event raises it   *)
(* or registers a click.                                                    *)
(***************************************************************************)
C21_ActivatedOnlyWithLeftHeld ==
    /\ Activated => (MousePress /\ ev.s.left /\ OverLink /\ clickRet = 1)
    /\ (PointerEvent /\ ev.s.type = "Touch") => (~Activated /\ ~ClickAttempted)

(***************************************************************************)
(* C22 as stated: a press changes the touchdown only if it is a locally     *)
(* handled left press with click count 1 and no selection; a press that is  *)
(* the 2nd, 3rd, 4th or later click of its sequence, and every press while  *)
(* a selection exists, leaves the touchdown (looked at for the presses      *)
(* that did not fail in registering the click).                             *)
(***************************************************************************)
touchdown == <<singleClickTouchdownPos, singleClickTouchdownTerminalPos>>

C22_CapturedOnlyOnCountOne ==
    [][(Pressed /\ ~raised)' =>
         /\ touchdown' # touchdown
                => (LocalClick' /\ clickRet' = 1 /\ ~ev'.s.hasSelection)
         /\ (clickRet' >= 2 \/ ev'.s.hasSelection)
                => touchdown' = touchdown]_vars

(***************************************************************************)
(* C22: a press writes the touchdown exactly when it is a locally handled   *)
(* left press (LeftClickOnTerminal is called), no selection exists and the  *)
(* click count mapped into 1..3 is 1, that is for click counts 1, 4, 7,     *)
(* ...; it then holds the position and cell of the press.  Every other      *)
(* press leaves it.                                                         *)
(***************************************************************************)
C22_CapturedOnMappedCountOne ==
    [][Pressed' =>
         IF LocalClick' /\ ~ev'.s.hasSelection /\ (clickRet' - 1) % 3 = 0
         THEN touchdown' = <<Some(ev'.s.pos), Some(ev'.s.cell)>>
         ELSE touchdown' = touchdown]_vars

C22_FourthClickCaptured ==
    /\ Pressed /\ LocalClick /\ clickRet = 4 /\ ~ev.s.hasSelection
    /\ touchdown = <<Some(ev.s.pos), Some(ev.s.cell)>>

(***************************************************************************)
(* C23 as stated: every locally handled left press (the left button held,   *)
(* no Ctrl over a link, not eligible for forwarding) calls                  *)
(* LeftClickOnTerminal exactly once, and passes as isOnOriginalPosition     *)
(* whether its position is that of the most recent press with click count   *)
(* 1 and no selection, itself included (looked at for the presses that did  *)
(* not fail in registering the click).                                      *)
(***************************************************************************)
LocalLeftPress ==
    /\ MousePress /\ ev.s.left /\ ~OverLink
    /\ (ev.s.shift \/ ~VtEnabled)
IsOnOriginalPosition == CallsOf("LeftClickOnTerminal")[1].args[5]

C23_OriginalPositionOfFirstClick ==
    (LocalLeftPress /\ ~raised) =>
        /\ NumCalls("LeftClickOnTerminal") = 1
        /\ IsOnOriginalPosition <=> (firstClickPos = Some(ev.s.pos))

(***************************************************************************)
(* C23: a locally handled left press calls LeftClickOnTerminal exactly      *)
(* once, unless registering the click raised, and then not at all; it       *)
(* passes as isOnOriginalPosition whether its position is that of the most  *)
(* recent press that captured the touchdown position, itself included: a    *)
(* press with no selection whose click count mapped into 1..3 is 1.         *)
(***************************************************************************)
C23_OriginalPositionOfLastCapture ==
    [][(LocalLeftPress' /\ NumCalls("LeftClickOnTerminal")' = 1 /\ ~raised'
        /\ IsOnOriginalPosition' =
              IF ~ev'.s.hasSelection /\ (clickRet' - 1) % 3 = 0
              THEN TRUE
              ELSE lastMouseClickPosNoSelection = Some(ev'.s.pos))
       \/ (LocalLeftPress' /\ NumCalls("LeftClickOnTerminal")' = 0 /\ raised')
       \/ ~LocalLeftPress']_vars

\* a fourth click, the first without a selection, away from the last first click
C23_FourthClickIsOriginal ==
    /\ LocalLeftPress /\ clickRet = 4 /\ IsOnOriginalPosition
    /\ firstClickPos # Some(ev.s.pos)

(***************************************************************************)
(* C24 as stated, for the moves of a focused control: while a touchdown is  *)
(* pending, a left-held move that is not forwarded calls SetSelectionAnchor *)
(* and clears the touchdown exactly when its distance from the touchdown    *)
(* point is more than a quarter of the smaller cell dimension; at exactly   *)
(* a quarter, or less, it leaves the touchdown and sets no anchor.          *)
(***************************************************************************)
DragMove == Moved /\ IsMouseOrPen(ev.s) /\ ev.s.focused /\ ev.s.left /\ ~Forwarded
QuarterCells(s, point) ==
    \* 4 * distance over the smaller cell dimension, both squared
    <<16 * DistanceSquared(s.pos, Value(point)),
      Min(FontSizeInDips(s)[1], FontSizeInDips(s)[2])
          * Min(FontSizeInDips(s)[1], FontSizeInDips(s)[2])>>
DragStarted ==
    /\ NumCalls("SetSelectionAnchor") = 1
    /\ touchdown = <<None, None>>

C24_DragStartsBeyondQuarterCell ==
    [][(DragMove' /\ HasValue(singleClickTouchdownPos)) =>
         LET q == QuarterCells(ev'.s, singleClickTouchdownPos)
         IN  IF q[1] > q[2]
             THEN DragStarted'
             ELSE /\ NumCalls("SetSelectionAnchor")' = 0
                  /\ touchdown' = touchdown]_vars

(***************************************************************************)
(* C24: a move calls SetSelectionAnchor, once, and clears the touchdown     *)
(* exactly when a touchdown is pending, the control is focused, the left    *)
(* button is held, the move is not forwarded and its distance from the      *)
(* touchdown point is at least a quarter of the smaller cell dimension;     *)
(* every other move sets no anchor and leaves the touchdown as it was, so   *)
(* with no touchdown pending no move sets an anchor until a press captures  *)
(* one again.                                                               *)
(***************************************************************************)
C24_DragStartsAtQuarterCell ==
    [][Moved' =>
         IF /\ DragMove' /\ HasValue(singleClickTouchdownPos)
            /\ LET q == QuarterCells(ev'.s, singleClickTouchdownPos)
               IN  q[1] >= q[2]
         THEN DragStarted'
         ELSE /\ NumCalls("SetSelectionAnchor")' = 0
              /\ touchdown' = touchdown]_vars

\* the drag started at exactly a quarter of a cell from the touchdown point
C24_DragStartedAtExactlyQuarterCell ==
    /\ DragMove /\ DragStarted
    /\ LET q == QuarterCells(ev.s, lastMouseClickPosNoSelection)
       IN  q[1] = q[2]

(***************************************************************************)
(* C25: the value a touch move passes to UserScrollViewport, a fraction     *)
(* n / d, is the scroll offset the core reported plus -(dy / cell height),  *)
(* dy being the contact Y minus the anchor Y; it is below the reported      *)
(* offset for a drag down (dy > 0) and above it for a drag up.              *)
(***************************************************************************)
Scrolled == TouchMove /\ NumCalls("UserScrollViewport") = 1
RequestedOffset == CallsOf("UserScrollViewport")[1].args[1]

C25_OffsetPlusInvertedRows ==
    [][Scrolled' =>
         LET dy == RowsFromAnchor(touchAnchor, ev'.s)
             h == FontSizeInDips(ev'.s)[2]
             n == RequestedOffset'[1]
             d == RequestedOffset'[2]
             offset == ev'.s.scrollOffset
         IN  /\ d > 0 /\ h > 0
             /\ n * h = (offset * h - dy) * d
             /\ dy > 0 => n < offset * d
             /\ dy < 0 => n > offset * d
             /\ dy # 0]_vars

\* a drag up by three quarters of a row from a scrolled viewport
C25_DraggedUpScrollsDown ==
    /\ Scrolled /\ ev.s.scrollOffset > 0
    /\ RequestedOffset[1] > ev.s.scrollOffset * RequestedOffset[2]
    /\ RequestedOffset[1] < (ev.s.scrollOffset + 1) * RequestedOffset[2]

(***************************************************************************)
(* C26: after a touch move that scrolled, _touchAnchor is the contact       *)
(* point of that move; a touch move that did not scroll leaves the anchor,  *)
(* so the next move is measured from the same point.                        *)
(***************************************************************************)
C26_AnchorFollowsScroll ==
    [][TouchMove' =>
         IF NumCalls("UserScrollViewport")' > 0
         THEN touchAnchor' = Some(ev'.s.contact)
         ELSE touchAnchor' = touchAnchor]_vars

\* a move of exactly half a row from an anchor that a scroll has set
C26_HalfRowFromNewAnchor ==
    /\ TouchMove /\ ev.s.focused /\ NumCalls("UserScrollViewport") = 0
    /\ HasValue(touchAnchor)
    /\ touchAnchor \notin {Some(s.contact) : s \in TouchPresses}
    /\ 2 * Abs(RowsFromAnchor(touchAnchor, ev.s)) = FontSizeInDips(ev.s)[2]

(***************************************************************************)
(* C27: a touch press sets _touchAnchor to the origin of the contact        *)
(* rectangle and a touch release empties it; while it is empty a touch      *)
(* move calls nothing and changes nothing, and it stays empty until the     *)
(* next touch press.                                                        *)
(***************************************************************************)
TouchPress == Pressed /\ ev.s.type = "Touch"
TouchRelease == Released /\ ev.s.type = "Touch"

C27_AnchorFromTouchDownToTouchUp ==
    [][/\ TouchPress' => touchAnchor' = Some(ev'.s.contact)
       /\ TouchRelease' => touchAnchor' = None
       /\ (TouchMove' /\ touchAnchor = None)
              => (calls' = <<>> /\ UNCHANGED interactionVars)
       /\ (touchAnchor = None /\ ~TouchPress') => touchAnchor' = None]_vars

\* a touch move beyond half a row after the touch-up: nothing is scrolled
C27_MoveAfterTouchUp ==
    /\ TouchMove /\ ev.s.focused /\ touchAnchor = None
    /\ ev.s.contact[2] = MaxCoord
    /\ calls = <<>>

(***************************************************************************)
(* C28 as stated: every call of _NumberOfClicks stores the position and     *)
(* the timestamp of its click as the last click, also when it resets the    *)
(* count to 1; the next click at that position within the window of that    *)
(* click returns 2.                                                         *)
(***************************************************************************)
C28_EveryClickStored ==
    [][/\ ClickAttempted' =>
            /\ lastMouseClickPos' = Some(ev'.s.pos)
            /\ lastMouseClickTimestamp' = ev'.s.time
       /\ (ClickAttempted /\ clickRet = 1 /\ ClickAttempted'
           /\ ev'.s.pos = ev.s.pos /\ ev'.s.time >= ev.s.time
           /\ ev'.s.time - ev.s.time <= multiClickTimer)
              => clickRet' = 2]_vars

(***************************************************************************)
(* C28, what the code does keep: every call of _NumberOfClicks that         *)
(* returns stores the position and the timestamp of its click, also when    *)
(* it returns 1, and the next click at that position within the window      *)
(* then returns 2; a call that raises stores nothing.                       *)
(***************************************************************************)
C28_EveryReturningClickStored ==
    [][/\ (ClickAttempted' /\ ~raised') =>
            /\ lastMouseClickPos' = Some(ev'.s.pos)
            /\ lastMouseClickTimestamp' = ev'.s.time
       /\ raised' =>
            UNCHANGED <<lastMouseClickPos, lastMouseClickTimestamp,
                        multiClickCounter>>
       /\ (clickRet = 1 /\ clickRet' # 0
           /\ ev'.s.pos = ev.s.pos
           /\ ev'.s.time - ev.s.time <= multiClickTimer)
              => clickRet' = 2]_vars

(***************************************************************************)
(* C29 as stated: a press, move or release of a device that is neither      *)
(* mouse, pen nor touch calls nothing, raises nothing and changes nothing.  *)
(***************************************************************************)
UnknownDeviceEvent ==
    PointerEvent /\ ev.s.type \notin {"Mouse", "Pen", "Touch"}

C29_UnknownDeviceChangesNothing ==
    [][UnknownDeviceEvent' =>
         /\ calls' = <<>> /\ ~raised' /\ clickRet' = 0
         /\ UNCHANGED interactionVars]_vars

(***************************************************************************)
(* C29: a press, move or release of a device that is neither mouse, pen     *)
(* nor touch calls nothing and raises nothing; the press and the move       *)
(* change nothing, and the release empties the touchdown and changes        *)
(* nothing else.                                                            *)
(***************************************************************************)
C29_UnknownDeviceReleaseClearsTouchdown ==
    [][UnknownDeviceEvent' =>
         /\ calls' = <<>> /\ ~raised' /\ clickRet' = 0
         /\ UNCHANGED <<touchAnchor, multiClickCounter, lastMouseClickTimestamp,
                        lastMouseClickPos, lastMouseClickPosNoSelection,
                        selectionNeedsToBeCopied>>
         /\ touchdown' = IF Released' THEN <<None, None>> ELSE touchdown]_vars

\* a press of an unknown device between a mouse press and its move: the
\* touchdown and the pending copy are still there
C29_UnknownPressOverPendingDrag ==
    /\ UnknownDeviceEvent /\ Pressed /\ ev.s.left
    /\ HasValue(singleClickTouchdownPos) /\ selectionNeedsToBeCopied
    /\ HasValue(touchAnchor)

(***************************************************************************)
(* C30 as stated: a press of a mouse or pen whose update kind is the right  *)
(* button going down registers no click, captures no touchdown, calls       *)
(* neither LeftClickOnTerminal nor SetSelectionAnchor and does not set      *)
(* _selectionNeedsToBeCopied, whatever buttons are held.                    *)
(***************************************************************************)
RightButtonDown == MousePress /\ ev.s.kind = "RightButtonPressed"
StartsNoDrag ==
    /\ ~ClickAttempted
    /\ NumCalls("LeftClickOnTerminal") = 0
    /\ NumCalls("SetSelectionAnchor") = 0

C30_RightButtonDownStartsNoDrag ==
    [][RightButtonDown' =>
         /\ StartsNoDrag'
         /\ touchdown' = touchdown
         /\ selectionNeedsToBeCopied' => selectionNeedsToBeCopied]_vars

(***************************************************************************)
(* C30, what the code does keep: a press of a mouse or pen during which     *)
(* the left button is not held registers no click, captures no touchdown,   *)
(* calls neither LeftClickOnTerminal nor SetSelectionAnchor and does not    *)
(* set _selectionNeedsToBeCopied.                                           *)
(***************************************************************************)
C30_PressWithoutLeftStartsNoDrag ==
    [][(MousePress /\ ~ev.s.left)' =>
         /\ StartsNoDrag'
         /\ touchdown' = touchdown
         /\ selectionNeedsToBeCopied' => selectionNeedsToBeCopied]_vars

(***************************************************************************)
(* C31: a Ctrl+left press over a link that registers its click stores its   *)
(* position, its timestamp and its count as the last click; a locally       *)
(* handled left press that follows it at the same position within the       *)
(* multi-click window continues its count: after a link click of count 1    *)
(* it has count 2 and LeftClickOnTerminal is passed 2, a double click.      *)
(***************************************************************************)
LinkClick == MousePress /\ ev.s.left /\ OverLink /\ clickRet # 0

C31_LinkClickCountsForSelection ==
    [][/\ LinkClick' =>
            /\ lastMouseClickPos' = Some(ev'.s.pos)
            /\ lastMouseClickTimestamp' = ev'.s.time
            /\ multiClickCounter' = clickRet'
       /\ (/\ LinkClick /\ LocalLeftPress'
           /\ ev'.s.pos = ev.s.pos
           /\ ev'.s.time >= ev.s.time
           /\ ev'.s.time - ev.s.time <= multiClickTimer)
              => /\ clickRet' = clickRet + 1
                 /\ NumCalls("LeftClickOnTerminal")' = 1
                 /\ CallsOf("LeftClickOnTerminal")'[1].args[2]
                        = (clickRet % 3) + 1
                 /\ clickRet = 1
                        => CallsOf("LeftClickOnTerminal")'[1].args[2] = 2]_vars

\* a double click whose first click was not a click on the terminal: no left
\* press of this specification has a selection, so it was a click on a link
C31_DoubleClickAfterLinkClick ==
    /\ LocalLeftPress /\ clickRet = 2
    /\ CallsOf("LeftClickOnTerminal")[1].args[2] = 2
    /\ firstClickPos = None
    /\ \A s \in DispatchPresses :
          (IsMouseOrPen(s) /\ s.left /\ ~(s.ctrl /\ s.hyperlink # ""))
              => ~s.hasSelection

(***************************************************************************)
(* C32: a left-held move of a focused control that is not forwarded, at     *)
(* less than a quarter of a cell from a pending touchdown, sets no anchor   *)
(* and leaves the touchdown pending, and sets _selectionNeedsToBeCopied;    *)
(* the release of the left button that follows it, not forwarded and with   *)
(* copy-on-select enabled, calls CopySelectionToClipboard once.             *)
(***************************************************************************)
PendingDragMove == DragMove /\ HasValue(singleClickTouchdownPos)

C32_CopyOwedBelowThreshold ==
    [][/\ (/\ DragMove' /\ HasValue(singleClickTouchdownPos)
           /\ LET q == QuarterCells(ev'.s, singleClickTouchdownPos)
              IN  q[1] < q[2])
              => /\ NumCalls("SetSelectionAnchor")' = 0
                 /\ touchdown' = touchdown
                 /\ selectionNeedsToBeCopied'
       /\ (/\ PendingDragMove
           /\ Released' /\ IsMouseOrPen(ev'.s) /\ ~Forwarded'
           /\ ev'.s.kind = "LeftButtonReleased" /\ ev'.s.copyOnSelect)
              => /\ NumCalls("CopySelectionToClipboard")' = 1
                 /\ ~selectionNeedsToBeCopied']_vars

\* a held move of an eighth of a cell from the touchdown point owes a copy
C32_MovedEighthOfCell ==
    /\ PendingDragMove /\ selectionNeedsToBeCopied
    /\ NumCalls("SetSelectionAnchor") = 0
    /\ LET q == QuarterCells(ev.s, singleClickTouchdownPos)
       IN  0 < q[1] /\ q[1] < q[2]

====
